---------------------------- MODULE Spec2Model ----------------------------
(***************************************************************************)
(* A model of src/crawl_script.py: the single-URL crawl operation          *)
(* (process_single_url), the asynchronous polling protocol                 *)
(* (wait_for_completion), content extraction and cleaning, and the batch   *)
(* loop of main.  A behaviour is one pass of main's menu loop (lines      *)
(* 295-378): a choice, the calls of process_single_url it makes, and the   *)
(* prompt of line 378 (pc = "end").                                        *)
(*                                                                         *)
(* Text is modelled as a sequence of characters; a character is a          *)
(* one-character string, except the two citation brackets U+27E8 and       *)
(* U+27E9, which are written "<<" and ">>".                                *)
(***************************************************************************)
EXTENDS Integers, Sequences, FiniteSets, TLC

(***************************************************************************)
(* Characters and character classes of Python's re module.                 *)
(***************************************************************************)
LAngle == "<<"
RAngle == ">>"
NL == "\n"
TAB == "\t"

Digits == {"0", "1", "2", "3", "4", "5", "6", "7", "8", "9"}

LowerLetters ==
    {"a", "b", "c", "d", "e", "f", "g", "h", "i", "j", "k", "l", "m",
     "n", "o", "p", "q", "r", "s", "t", "u", "v", "w", "x", "y", "z"}

UpperLetters ==
    {"A", "B", "C", "D", "E", "F", "G", "H", "I", "J", "K", "L", "M",
     "N", "O", "P", "Q", "R", "S", "T", "U", "V", "W", "X", "Y", "Z"}

\* \w
WordChars == LowerLetters \cup UpperLetters \cup Digits \cup {"_"}

\* \s
SpaceChars == {" ", TAB, NL}

\* [,.!?]
PunctChars == {",", ".", "!", "?"}

\* the characters [^\x20-\x7E] removes
NonPrintable == {TAB, NL, LAngle, RAngle}

\* the characters of s
Range_(s) == {s[i] : i \in 1..Len(s)}

\* s[i..] (empty when i is past the end)
Tail_(s, i) == SubSeq(s, i, Len(s))

\* the least j >= i with s[j] = c, or 0
RECURSIVE IndexOf(_, _, _)
IndexOf(s, c, i) ==
    IF i > Len(s) THEN 0
    ELSE IF s[i] = c THEN i
    ELSE IndexOf(s, c, i + 1)

\* the least j >= i with s[j] \notin S, or Len(s) + 1
RECURSIVE SkipWhile(_, _, _)
SkipWhile(s, S, i) ==
    IF i > Len(s) THEN i
    ELSE IF s[i] \in S THEN SkipWhile(s, S, i + 1)
    ELSE i

\* whether literal lit occurs in s at position i
StartsAt(s, lit, i) ==
    /\ i + Len(lit) - 1 <= Len(s)
    /\ \A k \in 1..Len(lit) : s[i + k - 1] = lit[k]


(***************************************************************************)
(* JSON values, as response.json() returns them.  An object is a function  *)
(* from its keys to values, a list a sequence of values.                   *)
(***************************************************************************)
JNull == [kind |-> "null"]
JStr(s) == [kind |-> "str", v |-> s]
JNum(n) == [kind |-> "num", v |-> n]
JList(items) == [kind |-> "list", v |-> items]
JObj(f) == [kind |-> "obj", v |-> f]
EmptyObj == JObj(<<>>)

\* the key names the program looks up, as Python strings
KeyText(key) ==
    CASE key = "markdown" -> <<"m", "a", "r", "k", "d", "o", "w", "n">>
      [] key = "markdown_v2" ->
            <<"m", "a", "r", "k", "d", "o", "w", "n", "_", "v", "2">>
      [] key = "raw_markdown" ->
            <<"r", "a", "w", "_", "m", "a", "r", "k", "d", "o", "w", "n">>
      [] key = "results" -> <<"r", "e", "s", "u", "l", "t", "s">>
      [] key = "result" -> <<"r", "e", "s", "u", "l", "t">>
      [] key = "status" -> <<"s", "t", "a", "t", "u", "s">>
      [] key = "task_id" -> <<"t", "a", "s", "k", "_", "i", "d">>
      [] key = "id" -> <<"i", "d">>

\* Python truthiness: bool(x)
Truthy(x) ==
    CASE x.kind = "null" -> FALSE
      [] x.kind = "str" -> Len(x.v) > 0
      [] x.kind = "num" -> x.v # 0
      [] x.kind = "list" -> Len(x.v) > 0
      [] x.kind = "obj" -> DOMAIN x.v # {}

\* isinstance(x, dict)
IsDict(x) == x.kind = "obj"

\* the decimal digits of a natural number
RECURSIVE DigitsOf(_)
DigitsOf(n) ==
    LET d == <<"0", "1", "2", "3", "4", "5", "6", "7", "8", "9">>[(n % 10) + 1]
    IN  IF n < 10 THEN <<d>> ELSE Append(DigitsOf(n \div 10), d)

\* str(x), for the values whose text the model needs
Str(x) ==
    CASE x.kind = "str" -> x.v
      [] x.kind = "null" -> <<"N", "o", "n", "e">>
      [] x.kind = "num" ->
            IF x.v < 0 THEN <<"-">> \o DigitsOf(-x.v) ELSE DigitsOf(x.v)
      [] x.kind = "list" /\ Len(x.v) = 0 -> <<"[", "]">>
      [] x.kind = "obj" /\ DOMAIN x.v = {} -> <<"{", "}">>

(***************************************************************************)
(* clean_markdown_content: eight re.sub passes and a strip.  Each pass     *)
(* scans left to right; where the pattern matches at position i the        *)
(* replacement is emitted and the scan resumes after the match, otherwise  *)
(* s[i] is copied.                                                         *)
(***************************************************************************)

\* re.sub(r'<<\d+>>', '', text)  (the citation brackets)
RECURSIVE SubCitation(_, _)
SubCitation(s, i) ==
    IF i > Len(s) THEN <<>>
    ELSE LET j == SkipWhile(s, Digits, i + 1)
         IN  IF s[i] = LAngle /\ j > i + 1 /\ j <= Len(s) /\ s[j] = RAngle
             THEN SubCitation(s, j + 1)
             ELSE <<s[i]>> \o SubCitation(s, i + 1)

\* re.sub(r'\bURL\b', '', text)
RECURSIVE SubURL(_, _)
SubURL(s, i) ==
    IF i > Len(s) THEN <<>>
    ELSE IF /\ StartsAt(s, <<"U", "R", "L">>, i)
            /\ (i = 1 \/ s[i - 1] \notin WordChars)
            /\ (i + 3 > Len(s) \/ s[i + 3] \notin WordChars)
         THEN SubURL(s, i + 3)
         ELSE <<s[i]>> \o SubURL(s, i + 1)

\* re.sub(r'!\[([^\]]*)\]\([^)]*\)', r'\1', text)
RECURSIVE SubImage(_, _)
SubImage(s, i) ==
    IF i > Len(s) THEN <<>>
    ELSE LET j == IF StartsAt(s, <<"!", "[">>, i)
                  THEN IndexOf(s, "]", i + 2) ELSE 0
             k == IF j # 0 /\ j + 1 <= Len(s) /\ s[j + 1] = "("
                  THEN IndexOf(s, ")", j + 2) ELSE 0
         IN  IF k # 0
             THEN SubSeq(s, i + 2, j - 1) \o SubImage(s, k + 1)
             ELSE <<s[i]>> \o SubImage(s, i + 1)

\* re.sub(r'\n{3,}', '\n\n', text)
RECURSIVE SubNewlines(_, _)
SubNewlines(s, i) ==
    IF i > Len(s) THEN <<>>
    ELSE LET j == SkipWhile(s, {NL}, i)
         IN  IF j - i >= 3
             THEN <<NL, NL>> \o SubNewlines(s, j)
             ELSE <<s[i]>> \o SubNewlines(s, i + 1)

\* re.sub(r'\s+([,.!?])', r'\1', text)
RECURSIVE SubPunctSpace(_, _)
SubPunctSpace(s, i) ==
    IF i > Len(s) THEN <<>>
    ELSE LET j == SkipWhile(s, SpaceChars, i)
         IN  IF j > i /\ j <= Len(s) /\ s[j] \in PunctChars
             THEN <<s[j]>> \o SubPunctSpace(s, j + 1)
             ELSE <<s[i]>> \o SubPunctSpace(s, i + 1)

\* re.sub(r'[ \t]+', ' ', text)
RECURSIVE SubSpaces(_, _)
SubSpaces(s, i) ==
    IF i > Len(s) THEN <<>>
    ELSE LET j == SkipWhile(s, {" ", TAB}, i)
         IN  IF j > i
             THEN <<" ">> \o SubSpaces(s, j)
             ELSE <<s[i]>> \o SubSpaces(s, i + 1)

\* re.sub(r'\[\]\([^)]*\)', '', text)
RECURSIVE SubEmptyLink(_, _)
SubEmptyLink(s, i) ==
    IF i > Len(s) THEN <<>>
    ELSE LET k == IF StartsAt(s, <<"[", "]", "(">>, i)
                  THEN IndexOf(s, ")", i + 3) ELSE 0
         IN  IF k # 0
             THEN SubEmptyLink(s, k + 1)
             ELSE <<s[i]>> \o SubEmptyLink(s, i + 1)

\* re.sub(r'\.{2,}', '.', text)
RECURSIVE SubDots(_, _)
SubDots(s, i) ==
    IF i > Len(s) THEN <<>>
    ELSE LET j == SkipWhile(s, {"."}, i)
         IN  IF j - i >= 2
             THEN <<".">> \o SubDots(s, j)
             ELSE <<s[i]>> \o SubDots(s, i + 1)

\* the greatest j <= i with s[j] \notin S, or 0
RECURSIVE SkipBack(_, _, _)
SkipBack(s, S, i) ==
    IF i < 1 THEN 0
    ELSE IF s[i] \in S THEN SkipBack(s, S, i - 1)
    ELSE i

\* str.strip()
Strip(s) == SubSeq(s, SkipWhile(s, SpaceChars, 1), SkipBack(s, SpaceChars, Len(s)))

\* the passes of clean_markdown_content on a Python string, in order
CleanText(text) ==
    LET t1 == SubCitation(text, 1)
        t2 == SubURL(t1, 1)
        t3 == SubImage(t2, 1)
        t4 == SubNewlines(t3, 1)
        t5 == SubPunctSpace(t4, 1)
        t6 == SubSpaces(t5, 1)
        t7 == SubEmptyLink(t6, 1)
        t8 == SubDots(t7, 1)
    IN  Strip(t8)

clean_markdown_content(content) ==
    IF ~Truthy(content) THEN <<>> ELSE CleanText(Str(content))

(***************************************************************************)
(* Results of a Python call that may raise: a value, None, or an           *)
(* exception.                                                              *)
(***************************************************************************)
Raised == [t |-> "raise", v |-> <<>>]
None == [t |-> "none", v |-> <<>>]
Text(s) == [t |-> "text", v |-> s]

\* whether sub occurs somewhere in s
Substring(sub, s) == \E i \in 1..(Len(s) + 1) : StartsAt(s, sub, i)

\* whether `key in x` raises TypeError (x is None or a number)
InRaises(x) == x.kind \notin {"obj", "list", "str"}

\* `key in x` for a dict (key lookup), a list (an equal element) or a
\* str (substring)
In(key, x) ==
    CASE x.kind = "obj" -> key \in DOMAIN x.v
      [] x.kind = "list" ->
            \E i \in 1..Len(x.v) :
                x.v[i].kind = "str" /\ x.v[i].v = KeyText(key)
      [] x.kind = "str" -> Substring(KeyText(key), x.v)
      [] OTHER -> FALSE

\* whether x[0] raises: a dict with string keys (KeyError) or a number
\* (TypeError); x is truthy
Index0Raises(x) == x.kind \notin {"list", "str"}

\* x[0] of a non-empty list or str
Index0(x) == IF x.kind = "list" THEN x.v[1] ELSE JStr(<<x.v[1]>>)

\* ActualResult looking the content up in the body itself, always
ActualResultTopLevel(result) == [t |-> "value", v |-> result]

\* lines 97-100: the object the content fields are looked up in; Raised
\* when result['results'][0] raises
ActualResult(result) ==
    IF /\ IsDict(result)
       /\ In("results", result)
       /\ Truthy(result.v["results"])
    THEN IF Index0Raises(result.v["results"])
         THEN Raised
         ELSE [t |-> "value", v |-> Index0(result.v["results"])]
    ELSE [t |-> "value", v |-> result]

\* lines 107-114: the markdown_v2 branch and the final return None
ExtractMarkdownV2(actual) ==
    IF In("markdown_v2", actual)
    THEN IF ~IsDict(actual)
         THEN Raised   \* actual['markdown_v2'] on a list
         ELSE LET markdown_v2 == actual.v["markdown_v2"]
              IN  IF /\ Truthy(markdown_v2)
                     /\ IsDict(markdown_v2)
                     /\ In("raw_markdown", markdown_v2)
                  THEN Text(clean_markdown_content(
                                markdown_v2.v["raw_markdown"]))
                  ELSE None
    ELSE None

\* ExtractMarkdown returning the markdown field as it is
ExtractMarkdownRaw(actual) ==
    IF InRaises(actual)
    THEN Raised
    ELSE IF In("markdown", actual)
         THEN IF ~IsDict(actual)
              THEN Raised
              ELSE IF Truthy(actual.v["markdown"])
                   THEN Text(Str(actual.v["markdown"]))
                   ELSE ExtractMarkdownV2(actual)
         ELSE ExtractMarkdownV2(actual)

\* lines 102-105: the markdown branch
ExtractMarkdown(actual) ==
    IF InRaises(actual)
    THEN Raised        \* 'markdown' in None, 'markdown' in 5
    ELSE IF In("markdown", actual)
         THEN IF ~IsDict(actual)
              THEN Raised   \* actual['markdown'] on a list or a str
              ELSE IF Truthy(actual.v["markdown"])
                   THEN Text(clean_markdown_content(actual.v["markdown"]))
                   ELSE ExtractMarkdownV2(actual)
         ELSE ExtractMarkdownV2(actual)

extract_clean_content(result) ==
    LET actual_result == ActualResult(result)
    IN  IF actual_result.t = "raise"
        THEN Raised
        ELSE ExtractMarkdown(actual_result.v)

\* `if content:` on what extract_clean_content returned
HasContent(content) == content.t = "text" /\ Len(content.v) > 0

(***************************************************************************)
(* clean_and_validate_url.                                                 *)
(***************************************************************************)

\* re.sub(r'\{[^}]*\}', '', url)
RECURSIVE SubBraces(_, _)
SubBraces(s, i) ==
    IF i > Len(s) THEN <<>>
    ELSE LET k == IF s[i] = "{" THEN IndexOf(s, "}", i + 1) ELSE 0
         IN  IF k # 0
             THEN SubBraces(s, k + 1)
             ELSE <<s[i]>> \o SubBraces(s, i + 1)

\* re.sub(r'\\[a-zA-Z]+\d*', '', url)
RECURSIVE SubCommands(_, _)
SubCommands(s, i) ==
    IF i > Len(s) THEN <<>>
    ELSE LET j == SkipWhile(s, LowerLetters \cup UpperLetters, i + 1)
         IN  IF s[i] = "\\" /\ j > i + 1
             THEN SubCommands(s, SkipWhile(s, Digits, j))
             ELSE <<s[i]>> \o SubCommands(s, i + 1)

\* re.sub(r'[^\x20-\x7E]', '', url)
RECURSIVE SubNonPrintable(_, _)
SubNonPrintable(s, i) ==
    IF i > Len(s) THEN <<>>
    ELSE IF s[i] \in NonPrintable
         THEN SubNonPrintable(s, i + 1)
         ELSE <<s[i]>> \o SubNonPrintable(s, i + 1)

Http == <<"h", "t", "t", "p", ":", "/", "/">>
Https == <<"h", "t", "t", "p", "s", ":", "/", "/">>

\* lines 164-167: the text left after the three removals and the strip
CleanedUrlText(url) ==
    Strip(SubNonPrintable(SubCommands(SubBraces(url, 1), 1), 1))

\* lines 178-179: the default scheme
WithScheme(url) ==
    IF StartsAt(url, Http, 1) \/ StartsAt(url, Https, 1)
    THEN url
    ELSE Https \o url

\* urlparse(url).netloc of a url that starts with http:// or https://: the
\* text after the "//" up to the first of / ? #
Netloc(url) ==
    LET start == IF StartsAt(url, Https, 1) THEN Len(Https) + 1
                 ELSE Len(Http) + 1
        stop == SkipWhile(url, {c \in Range_(url) : c \notin {"/", "?", "#"}},
                          start)
    IN  SubSeq(url, start, stop - 1)

\* urlparse raises ValueError ("Invalid IPv6 URL") when exactly one of the
\* brackets [ ] occurs in the netloc.  (With both present it validates the
\* bracketed host; the inputs of this model hold no "]".)
UrlparseRaises(url) ==
    LET netloc == Netloc(url)
    IN  (IndexOf(netloc, "[", 1) # 0) # (IndexOf(netloc, "]", 1) # 0)

\* Text(url), None, or Raised when urlparse raises
clean_and_validate_url(url) ==
    IF Len(url) = 0 THEN None
    ELSE LET cleaned == CleanedUrlText(url)
         IN  IF Len(cleaned) = 0 THEN None
             ELSE IF cleaned[1] = "#" THEN None
             ELSE IF UrlparseRaises(WithScheme(cleaned)) THEN Raised
             ELSE IF Len(Netloc(WithScheme(cleaned))) = 0 THEN None
             ELSE Text(WithScheme(cleaned))

(***************************************************************************)
(* HTTP: what requests.get / requests.post gives back.                     *)
(***************************************************************************)
\* requests raised (connection error, timeout)
TransportException == [kind |-> "exception"]
\* a response whose .json() yields body
Response(code, body) ==
    [kind |-> "response", code |-> code, json |-> TRUE, body |-> body]
\* a response whose body is not JSON: .json() raises
NotJson(code) ==
    [kind |-> "response", code |-> code, json |-> FALSE, body |-> JNull]
NoResponse == [kind |-> "none"]

UpperSeq ==
    <<"A", "B", "C", "D", "E", "F", "G", "H", "I", "J", "K", "L", "M",
      "N", "O", "P", "Q", "R", "S", "T", "U", "V", "W", "X", "Y", "Z">>
LowerSeq ==
    <<"a", "b", "c", "d", "e", "f", "g", "h", "i", "j", "k", "l", "m",
      "n", "o", "p", "q", "r", "s", "t", "u", "v", "w", "x", "y", "z">>

\* str.lower()
Lower(s) ==
    [i \in 1..Len(s) |->
        IF s[i] \in UpperLetters
        THEN LowerSeq[CHOOSE k \in 1..26 : UpperSeq[k] = s[i]]
        ELSE s[i]]

\* the status vocabulary of lines 130, 143, 146
CompletedWords ==
    {<<"c", "o", "m", "p", "l", "e", "t", "e", "d">>,
     <<"s", "u", "c", "c", "e", "s", "s">>,
     <<"f", "i", "n", "i", "s", "h", "e", "d">>}
FailedWords ==
    {<<"f", "a", "i", "l", "e", "d">>, <<"e", "r", "r", "o", "r">>}
WaitingWords ==
    {<<"p", "e", "n", "d", "i", "n", "g">>,
     <<"r", "u", "n", "n", "i", "n", "g">>}

\* dict.get(key, default)
Get(d, key, default) == IF key \in DOMAIN d.v THEN d.v[key] ELSE default

\* line 128: str(result.get('status', '')).lower() of a dict
StatusOf(result) == Lower(Str(Get(result, "status", JStr(<<>>))))

(***************************************************************************)
(* wait_for_completion, lines 122-151: what one endpoint attempt does      *)
(* with the response it got.                                               *)
(*   save        completed, content extracted: save_markdown is called     *)
(*   no_content  completed, nothing extracted: return False (line 141)     *)
(*   failed      return False (line 145)                                   *)
(*   break       pending/running: leave the endpoint loop (line 148)       *)
(*   next        non-200 or an unrecognised status: the next endpoint      *)
(*   except      an exception, swallowed by line 150: the next endpoint    *)
(***************************************************************************)
Attempt(act) == [act |-> act, content |-> <<>>]

\* line 132: result.get('result', result)
final_result(result) == Get(result, "result", result)

\* OnCompleted with the extraction applied to the whole body
OnCompletedWholeBody(result) ==
    LET content == extract_clean_content(result)
    IN  IF content.t = "raise" THEN Attempt("except")
        ELSE IF HasContent(content)
             THEN [act |-> "save", content |-> content.v]
             ELSE Attempt("no_content")

\* lines 130-141
OnCompleted(result) ==
    LET content == extract_clean_content(final_result(result))
    IN  IF content.t = "raise" THEN Attempt("except")
        ELSE IF HasContent(content)
             THEN [act |-> "save", content |-> content.v]
             ELSE Attempt("no_content")

\* OnStatusBody without the break on pending/running
OnStatusBodyNoBreak(result) ==
    IF ~IsDict(result) THEN Attempt("except")
    ELSE LET status == StatusOf(result)
         IN  IF status \in CompletedWords THEN OnCompleted(result)
             ELSE IF status \in FailedWords THEN Attempt("failed")
             ELSE Attempt("next")

\* OnStatusBody comparing the status as sent, not lower-cased
OnStatusBodyCaseSensitive(result) ==
    IF ~IsDict(result) THEN Attempt("except")
    ELSE LET status == Str(Get(result, "status", JStr(<<>>)))
         IN  IF status \in CompletedWords THEN OnCompleted(result)
             ELSE IF status \in FailedWords THEN Attempt("failed")
             ELSE IF status \in WaitingWords THEN Attempt("break")
             ELSE Attempt("next")

\* OnStatusBody giving up on a status it does not know
OnStatusBodyStrict(result) ==
    IF ~IsDict(result) THEN Attempt("except")
    ELSE LET status == StatusOf(result)
         IN  IF status \in CompletedWords THEN OnCompleted(result)
             ELSE IF status \in WaitingWords THEN Attempt("break")
             ELSE Attempt("failed")

\* lines 127-148
OnStatusBody(result) ==
    IF ~IsDict(result) THEN Attempt("except")   \* no .get
    ELSE LET status == StatusOf(result)
         IN  IF status \in CompletedWords THEN OnCompleted(result)
             ELSE IF status \in FailedWords THEN Attempt("failed")
             ELSE IF status \in WaitingWords THEN Attempt("break")
             ELSE Attempt("next")

\* OnStatusResponse without the test of the status code
OnStatusResponseAnyCode(response) ==
    IF response.kind = "exception" THEN Attempt("except")
    ELSE IF ~response.json THEN Attempt("except")
    ELSE OnStatusBody(response.body)

\* OnStatusResponse giving up on an exception
OnStatusResponseAbort(response) ==
    IF response.kind = "exception" THEN Attempt("failed")
    ELSE IF response.code # 200 THEN Attempt("next")
    ELSE IF ~response.json THEN Attempt("except")
    ELSE OnStatusBody(response.body)

\* lines 124-151
OnStatusResponse(response) ==
    IF response.kind = "exception" THEN Attempt("except")
    ELSE IF response.code # 200 THEN Attempt("next")
    ELSE IF ~response.json THEN Attempt("except")
    ELSE OnStatusBody(response.body)

(***************************************************************************)
(* process_single_url, lines 249-289: what the submission's response       *)
(* leads to.                                                               *)
(*   async       wait_for_completion(task_id, ...) is called (line 265)    *)
(*   save        direct content: save_markdown is called (line 274)        *)
(*   no_content  return False (line 278)                                   *)
(*   error       a non-200 status: return False (line 285)                 *)
(*   except      an exception: return False (line 289)                     *)
(***************************************************************************)
Submitted(act) == [act |-> act, content |-> <<>>, task_id |-> JNull]

\* x or y
Or(x, y) == IF Truthy(x) THEN x ELSE y

\* lines 258-278
OnCrawlBody(result) ==
    IF InRaises(result) THEN Submitted("except")   \* 'task_id' in None
    ELSE IF In("task_id", result) \/ In("id", result)
         THEN IF ~IsDict(result)
              THEN Submitted("except")               \* no .get
              ELSE [act |-> "async", content |-> <<>>,
                    task_id |-> Or(Get(result, "task_id", JNull),
                                   Get(result, "id", JNull))]
         ELSE LET content == extract_clean_content(result)
              IN  IF content.t = "raise" THEN Submitted("except")
                  ELSE IF HasContent(content)
                       THEN [act |-> "save", content |-> content.v,
                             task_id |-> JNull]
                       ELSE Submitted("no_content")

\* OnCrawlResponse without the test of the status code
OnCrawlResponseAnyCode(response) ==
    IF response.kind = "exception" THEN Submitted("except")
    ELSE IF ~response.json THEN Submitted("except")
    ELSE OnCrawlBody(response.body)

\* lines 250-289
OnCrawlResponse(response) ==
    IF response.kind = "exception" THEN Submitted("except")
    ELSE IF response.code # 200 THEN Submitted("error")
    ELSE IF ~response.json THEN Submitted("except")
    ELSE OnCrawlBody(response.body)

\* how the status GET's answer reads: completed, failed, waiting or
\* unrecognized for HTTP 200 with a JSON object, none otherwise
StatusClass(resp) ==
    IF resp.kind = "response" /\ resp.code = 200 /\ resp.json
       /\ IsDict(resp.body)
    THEN LET status == StatusOf(resp.body)
         IN  IF status \in CompletedWords THEN "completed"
             ELSE IF status \in FailedWords THEN "failed"
             ELSE IF status \in WaitingWords THEN "waiting"
             ELSE "unrecognized"
    ELSE "none"

Is200(resp) == resp.kind = "response" /\ resp.code = 200

\* how an answer that did not end the endpoint scan reads: a transport
\* exception, a non-200 status, HTTP 200 with an unrecognized status, or
\* HTTP 200 whose handling raised
PassedOver(resp) ==
    IF resp.kind = "exception" THEN "exception"
    ELSE IF resp.code # 200 THEN "non200"
    ELSE IF StatusClass(resp) = "unrecognized" THEN "unrecognized"
    ELSE "raised"

\* line 118: the candidate endpoints, each the path prefix and the
\* formatted task id
endpoints(task_id) ==
    <<[path |-> "/task/", id |-> Str(task_id)],
      [path |-> "/tasks/", id |-> Str(task_id)],
      [path |-> "/result/", id |-> Str(task_id)]>>

\* line 120: range(24)
MaxAttempts == 24
\* line 153: time.sleep(5)
PollDelay == 5

(***************************************************************************)
(* read_urls_from_file, lines 188-205: the cleaned URLs of the lines that  *)
(* pass clean_and_validate_url; [] when a line makes it raise.             *)
(***************************************************************************)
RECURSIVE CleanedLines(_)
CleanedLines(lines) ==
    IF Len(lines) = 0 THEN <<>>
    ELSE LET cleaned_url == clean_and_validate_url(Strip(Head(lines)))
             rest == CleanedLines(Tail(lines))
         IN  IF cleaned_url.t = "text" /\ Len(cleaned_url.v) > 0
             THEN <<cleaned_url.v>> \o rest
             ELSE rest

read_urls_from_file(lines) ==
    IF \E i \in 1..Len(lines) :
            clean_and_validate_url(Strip(lines[i])).t = "raise"
    THEN <<>>
    ELSE CleanedLines(lines)

(***************************************************************************)
(* get_filename_from_url (lines 32-59), on a URL that                      *)
(* clean_and_validate_url returned.                                        *)
(***************************************************************************)
\* the greatest j with s[j] = c, or 0
RECURSIVE LastIndexOf(_, _, _)
LastIndexOf(s, c, i) ==
    IF i < 1 THEN 0
    ELSE IF s[i] = c THEN i
    ELSE LastIndexOf(s, c, i - 1)

\* the part of s before the first c (all of s without one)
Before(s, c) ==
    LET k == IndexOf(s, c, 1)
    IN  IF k = 0 THEN s ELSE SubSeq(s, 1, k - 1)

\* urlparse(url).hostname: the netloc after its last "@", up to the first
\* ":", lowercased up to a "%"; None (here the empty text) without a host
Hostname(url) ==
    LET netloc == Netloc(url)
        hostinfo == Tail_(netloc, LastIndexOf(netloc, "@", Len(netloc)) + 1)
        host == Before(hostinfo, ":")
        zone == Tail_(host, Len(Before(host, "%")) + 1)
    IN  Lower(Before(host, "%")) \o zone

\* urlparse(url).path: from the end of the netloc up to the first of ? #,
\* without the parameters that follow a ";" in its last segment
Path(url) ==
    LET start == IF StartsAt(url, Https, 1) THEN Len(Https) + 1
                 ELSE Len(Http) + 1
        rest == Tail_(url, start + Len(Netloc(url)))
        path == Before(Before(rest, "#"), "?")
        slash == LastIndexOf(path, "/", Len(path))
        semi == IndexOf(path, ";", slash + 1)
    IN  IF semi = 0 THEN path ELSE SubSeq(path, 1, semi - 1)

WWW == <<"w", "w", "w", ".">>
Md == <<".", "m", "d">>
Unknown == <<"u", "n", "k", "n", "o", "w", "n">>
IndexHtml == <<"i", "n", "d", "e", "x", ".", "h", "t", "m", "l">>
IndexPhp == <<"i", "n", "d", "e", "x", ".", "p", "h", "p">>

\* hostname.replace('www.', '')
RECURSIVE ReplaceWWW(_, _)
ReplaceWWW(s, i) ==
    IF i > Len(s) THEN <<>>
    ELSE IF StartsAt(s, WWW, i) THEN ReplaceWWW(s, i + Len(WWW))
    ELSE <<s[i]>> \o ReplaceWWW(s, i + 1)

\* re.sub(r'[^\w\-]', '', s)
RECURSIVE Sanitize(_, _)
Sanitize(s, i) ==
    IF i > Len(s) THEN <<>>
    ELSE IF s[i] \in WordChars \cup {"-"}
         THEN <<s[i]>> \o Sanitize(s, i + 1)
         ELSE Sanitize(s, i + 1)

\* str.strip('/')
StripSlashes(s) ==
    SubSeq(s, SkipWhile(s, {"/"}, 1), SkipBack(s, {"/"}, Len(s)))

\* a host stem that keeps the dots of the host name
HostStemDotted(hostname) ==
    IF Len(hostname) = 0 THEN Unknown
    ELSE ReplaceWWW(hostname, 1)

\* lines 35-38: the host part of the file name
HostStem(hostname) ==
    IF Len(hostname) = 0 THEN Sanitize(Unknown, 1)
    ELSE Sanitize(ReplaceWWW(hostname, 1), 1)

\* lines 46-54: the last segment of the path, up to its first dot
PageName(path) ==
    LET last == Tail_(path, LastIndexOf(path, "/", Len(path)) + 1)
    IN  Sanitize(Before(last, "."), 1)

get_filename_from_url(url) ==
    LET hostname == HostStem(Hostname(url))
        path == StripSlashes(Path(url))
    IN  IF Len(path) = 0 \/ path = IndexHtml \/ path = IndexPhp
        THEN hostname \o Md
        ELSE IF Len(PageName(path)) # 0
             THEN hostname \o <<"-">> \o PageName(path) \o Md
             ELSE hostname \o Md

(***************************************************************************)
(* The inputs the model draws from: what the user types, what the file     *)
(* holds and what the service answers.                                     *)
(***************************************************************************)
\* the longest URL file of a batch run, in lines
MaxLines == 2

\* the resolution of the model's clock: ticks in a second
TicksPerSecond == 2

\* the last reading of the clock, and the longest time between two passes
\* of the menu, in ticks
MaxClock == 4
MaxElapse == 2

Done == <<"D", "o", "n", "e">>
HelloCited ==
    <<"H", "e", "l", "l", "o", " ", LAngle, "1", RAngle, " ",
      "W", "o", "r", "l", "d">>
Abc == <<"a", "b", "c">>
ACited == <<"a", LAngle, "1", RAngle>>

\* what the user types at "Enter the full URL": a bare host, a comment, an
\* unmatched bracket, a blank, a path without a host
TypedInputs ==
    {<<"a", ".", "b">>,
     <<"#", "a">>,
     <<"[">>,
     <<" ">>,
     <<"/", "a">>}

\* the lines a URL file is made of: as above, and a host with a rich-text
\* command in front, which is cleaned to a URL that does not pass a second
\* cleaning
FileLines ==
    {<<"a", ".", "b">>,
     <<"#", "a">>,
     <<"[">>,
     <<"\\", "\\", "a", "1", "b">>}

\* the URL files of at most MaxLines lines
Files == UNION {[1..n -> FileLines] : n \in 1..MaxLines}

Status(word) == [status |-> JStr(word)]
StatusResult(word, result) == [status |-> JStr(word), result |-> result]
Markdown(text) == JObj([markdown |-> JStr(text)])

Completed == <<"c", "o", "m", "p", "l", "e", "t", "e", "d">>
Success == <<"s", "u", "c", "c", "e", "s", "s">>
Finished == <<"f", "i", "n", "i", "s", "h", "e", "d">>

\* what a status endpoint may answer
StatusResponses ==
    <<TransportException,
      NotJson(200),
      Response(404, JObj(StatusResult(Completed, Markdown(Done)))),
      Response(200, JList(<<>>)),
      Response(200, EmptyObj),
      Response(200, JObj(Status(<<"q", "u", "e", "u", "e", "d">>))),
      Response(200, JObj(Status(<<"p", "e", "n", "d", "i", "n", "g">>))),
      Response(200, JObj(Status(<<"r", "u", "n", "n", "i", "n", "g">>))),
      Response(200, JObj(Status(<<"f", "a", "i", "l", "e", "d">>))),
      Response(200, JObj(Status(<<"E", "R", "R", "O", "R">>))),
      Response(200, JObj(StatusResult(Completed, Markdown(Done)))),
      Response(200, JObj([status |-> JStr(Success),
                          markdown |-> JStr(Done)])),
      Response(200, JObj(Status(Finished))),
      Response(200, JObj(StatusResult(Success, JNull))),
      Response(200, JObj(StatusResult(Finished, JNum(5)))),
      Response(200, JObj(StatusResult(Completed, JStr(<<"x">>)))),
      Response(200, JObj(StatusResult(Completed, EmptyObj))),
      Response(200, JObj(StatusResult(Completed, Markdown(<<" ">>))))>>

\* what POST /crawl may answer
CrawlResponses ==
    <<TransportException,
      NotJson(200),
      Response(500, EmptyObj),
      Response(422, JObj([task_id |-> JStr(Abc)])),
      Response(200, JNull),
      Response(200, EmptyObj),
      Response(200, Markdown(HelloCited)),
      Response(200, Markdown(<<"U", "R", "L">>)),
      Response(200, JObj([results |-> JList(<<Markdown(<<"a">>)>>),
                          markdown |-> JStr(<<"b">>)])),
      Response(200, JObj([task_id |-> JStr(Abc)])),
      Response(200, JObj([id |-> JStr(Abc)])),
      Response(200, JObj([task_id |-> JStr(<<>>), id |-> JStr(Abc)])),
      Response(200, JObj([task_id |-> JNum(0)])),
      Response(200, JObj([markdown_v2 |->
                              JObj([raw_markdown |-> JStr(ACited)])]))>>

\* the answers of a batch run: one of each kind of outcome
BatchStatusResponses ==
    <<TransportException,
      Response(404, EmptyObj),
      Response(200, JObj(Status(<<"f", "a", "i", "l", "e", "d">>))),
      Response(200, JObj(StatusResult(Completed, Markdown(Done)))),
      Response(200, JObj(StatusResult(Completed, EmptyObj)))>>

BatchCrawlResponses ==
    <<TransportException,
      Response(500, EmptyObj),
      Response(200, EmptyObj),
      Response(200, Markdown(Done)),
      Response(200, JObj([task_id |-> JStr(Abc)]))>>

\* the longest text given to clean_markdown_content on its own
MaxTextLen == 6

\* the texts of at most MaxTextLen characters over an alphabet
Texts(alphabet, n) == UNION {[1..k -> alphabet] : k \in 0..n}

CleanTexts == Texts({LAngle, "1", RAngle, " "}, MaxTextLen)

\* the longest raw URL given to clean_and_validate_url on its own
MaxUrlLen == 4

\* example.com/blog/my-post.html and https://example.com/
ExamplePost ==
    <<"e", "x", "a", "m", "p", "l", "e", ".", "c", "o", "m", "/",
      "b", "l", "o", "g", "/", "m", "y", "-", "p", "o", "s", "t",
      ".", "h", "t", "m", "l">>
ExampleHome == Https \o <<"e", "x", "a", "m", "p", "l", "e", ".", "c", "o", "m", "/">>

RawUrls ==
    Texts({"\\", TAB, "a", "1", ".", "/"}, MaxUrlLen)
        \cup {ExamplePost, ExampleHome}

\* a field that an object does not have
Absent == [kind |-> "absent"]

\* the values of a markdown field and of a markdown_v2 field
MarkdownFields ==
    {Absent, JNull, JStr(<<>>), JStr(<<" ">>), JStr(Done), JStr(ACited),
     JStr(<<LAngle, "1", RAngle>>)}
MarkdownV2Fields ==
    {Absent, EmptyObj, JStr(Abc), JObj([raw_markdown |-> JStr(Abc)]),
     JObj([raw_markdown |-> JStr(<<>>)])}

\* the object with the given markdown and markdown_v2 fields
Fields(m, v) ==
    JObj([k \in {x \in {"markdown"} : m # Absent}
                  \cup {x \in {"markdown_v2"} : v # Absent} |->
            IF k = "markdown" THEN m ELSE v])

\* object o with a results field added
WithResults(o, r) ==
    JObj([k \in DOMAIN o.v \cup {"results"} |->
            IF k = "results" THEN r ELSE o.v[k]])

Objects == {Fields(m, v) : m \in MarkdownFields, v \in MarkdownV2Fields}

\* what a body holds under results
ResultsFields ==
    {JList(<<e>>) : e \in Objects \cup
                          {JNull, JStr(KeyText("markdown")), JList(<<>>)}}
        \cup {JList(<<>>), JNull, JNum(5), JStr(Abc), EmptyObj}

\* the response bodies given to extract_clean_content on its own
Bodies ==
    Objects
        \cup {WithResults(o, r) : o \in Objects, r \in ResultsFields}
        \cup {JNull, JNum(5), JStr(KeyText("markdown")), JList(<<>>),
              JList(<<JStr(KeyText("markdown"))>>)}

\* a service that answers every submission at once
DirectCrawlResponses ==
    <<TransportException,
      Response(500, EmptyObj),
      Response(200, Markdown(Done))>>

\* whether save_markdown completes (TRUE) or raises (FALSE); it runs only
\* when the handler reached it
SaveResults(act) == IF act = "save" THEN BOOLEAN ELSE {TRUE}

\* where a save_markdown that raises does so: before line 226 has opened
\* (created or truncated) the file (FALSE), or at the write or the prints
\* that follow it (TRUE)
FaultPoints(act, save_ok) ==
    IF act = "save" /\ ~save_ok THEN BOOLEAN ELSE {FALSE}

(***************************************************************************)
(* The state.                                                              *)
(***************************************************************************)
VARIABLES
    pc,           \* where the program is: menu, call, post, poll, sleep,
                  \* returned, end, crashed
    mode,         \* main's choice: single (1) or batch (2)
    urls,         \* the arguments of process_single_url, in order
    idx,          \* main's loop index i
    successful,   \* main's counters
    failed,
    cleaned_url,  \* process_single_url's locals
    task_id,
    attempt,      \* wait_for_completion's loop variables: the round ...
    ep,           \* ... and the index of the endpoint to try next
    request,      \* the last HTTP request issued
    response,     \* the last HTTP response (or exception) received
    ret,          \* what process_single_url returned: none, True, False
    site,         \* the return statement it returned from
    slept,        \* time slept by wait_for_completion in this call
    writes,       \* files written by this call
    saved,        \* the save_markdown calls completed so far, in order
    allNon200,    \* every status GET of this call got a non-200 response
    allWaiting,   \* every finished round of this call ended on
                  \* pending/running
    roundSaw,     \* the kinds of answer passed over in the current round
    sawTerminal,  \* some status GET of this call got HTTP 200 with a
                  \* completed or failed status
    save_raised,  \* save_markdown raised in the step just taken
    file_left,    \* ... after it had opened the file for writing
    clock,        \* time.time(), in ticks (KeySpec only: the other
                  \* specifications do not observe the time)
    cache_keys,   \* the cache_key of every submission built so far
    arg,          \* the argument of the function under study (CleanSpec,
                  \* UrlSpec, ExtractSpec)
    outs          \* what its applications returned, in order

main_vars == <<mode, urls, idx, successful, failed>>
call_vars == <<cleaned_url, task_id, attempt, ep, request, response, ret,
               site, slept, writes, allNon200, allWaiting, roundSaw,
               sawTerminal, save_raised, file_left>>
time_vars == <<clock, cache_keys>>
fn_vars == <<arg, outs>>
vars == <<pc, main_vars, call_vars, saved, time_vars, fn_vars>>

NoRequest == [method |-> "none", path |-> "", id |-> <<>>]

\* the program before main's first prompt
ProgramInit ==
    /\ pc = "menu"
    /\ mode = "none"
    /\ urls = <<>>
    /\ idx = 0
    /\ successful = 0
    /\ failed = 0
    /\ cleaned_url = <<>>
    /\ task_id = JNull
    /\ attempt = 0
    /\ ep = 1
    /\ request = NoRequest
    /\ response = NoResponse
    /\ ret = "none"
    /\ site = "none"
    /\ slept = 0
    /\ writes = 0
    /\ saved = <<>>
    /\ allNon200 = TRUE
    /\ allWaiting = TRUE
    /\ roundSaw = {}
    /\ sawTerminal = FALSE
    /\ save_raised = FALSE
    /\ file_left = FALSE
    /\ clock = 0
    /\ cache_keys = <<>>

Init ==
    /\ ProgramInit
    /\ arg = <<>>
    /\ outs = <<>>

(***************************************************************************)
(* The operations.                                                         *)
(***************************************************************************)

\* a return statement of process_single_url (or of wait_for_completion,
\* whose result process_single_url passes on, lines 265-269)
Return(value, where) ==
    /\ pc' = "returned"
    /\ ret' = value
    /\ site' = where

\* lines 207-230: save_markdown(content, url) completed
save_markdown(content, url) ==
    /\ saved' = Append(saved, [url |-> url, content |-> content])
    /\ writes' = writes + 1

\* main, lines 307-315: choice 1, a single URL typed by the user
ChooseSingle ==
    /\ pc = "menu"
    /\ \E raw \in TypedInputs :
        LET url == Strip(raw)
        IN  IF Len(url) = 0
            THEN /\ pc' = "end"
                 /\ UNCHANGED <<mode, urls, idx>>
            ELSE /\ pc' = "call"
                 /\ mode' = "single"
                 /\ urls' = <<url>>
                 /\ idx' = 1
    /\ UNCHANGED <<successful, failed, call_vars, saved, time_vars, fn_vars>>

\* main, lines 319-352: choice 2, the URLs of a file
ChooseBatch ==
    /\ pc = "menu"
    /\ \E lines \in Files :
        LET read == read_urls_from_file(lines)
        IN  IF Len(read) = 0
            THEN /\ pc' = "end"
                 /\ UNCHANGED <<mode, urls, idx>>
            ELSE /\ pc' = "call"
                 /\ mode' = "batch"
                 /\ urls' = read
                 /\ idx' = 1
    /\ UNCHANGED <<successful, failed, call_vars, saved, time_vars, fn_vars>>

\* EnterCall going on with a URL that was rejected
EnterCallUnchecked ==
    /\ pc = "call"
    /\ LET cleaned == clean_and_validate_url(urls[idx])
       IN  IF cleaned.t = "raise"
           THEN \* urlparse's ValueError leaves process_single_url and main
                /\ pc' = "crashed"
                /\ ret' = "none"
                /\ site' = "raised"
                /\ cleaned_url' = <<>>
           ELSE IF cleaned.t = "none"
           THEN /\ pc' = "post"
                /\ ret' = "none"
                /\ site' = "none"
                /\ cleaned_url' = urls[idx]
           ELSE /\ pc' = "post"
                /\ ret' = "none"
                /\ site' = "none"
                /\ cleaned_url' = cleaned.v
    /\ task_id' = JNull
    /\ attempt' = 0
    /\ ep' = 1
    /\ request' = NoRequest
    /\ response' = NoResponse
    /\ slept' = 0
    /\ writes' = 0
    /\ allNon200' = TRUE
    /\ allWaiting' = TRUE
    /\ roundSaw' = {}
    /\ sawTerminal' = FALSE
    /\ save_raised' = FALSE
    /\ file_left' = FALSE
    /\ UNCHANGED <<main_vars, saved, fn_vars>>

\* process_single_url, lines 232-247: validate the URL, build the request
EnterCall ==
    /\ pc = "call"
    /\ LET cleaned == clean_and_validate_url(urls[idx])
       IN  IF cleaned.t = "raise"
           THEN \* urlparse's ValueError leaves process_single_url and main
                /\ pc' = "crashed"
                /\ ret' = "none"
                /\ site' = "raised"
                /\ cleaned_url' = <<>>
           ELSE IF cleaned.t = "none"
           THEN /\ Return("False", "invalid_url")
                /\ cleaned_url' = <<>>
           ELSE /\ pc' = "post"
                /\ ret' = "none"
                /\ site' = "none"
                /\ cleaned_url' = cleaned.v
    /\ task_id' = JNull
    /\ attempt' = 0
    /\ ep' = 1
    /\ request' = NoRequest
    /\ response' = NoResponse
    /\ slept' = 0
    /\ writes' = 0
    /\ allNon200' = TRUE
    /\ allWaiting' = TRUE
    /\ roundSaw' = {}
    /\ sawTerminal' = FALSE
    /\ save_raised' = FALSE
    /\ file_left' = FALSE
    /\ UNCHANGED <<main_vars, saved, fn_vars>>

\* lines 244-247: the cache key of the request
Fresh == <<"f", "r", "e", "s", "h", "_">>
cache_key(now) == Fresh \o DigitsOf(now \div TicksPerSecond)

\* the call with the time left aside
Enter == EnterCall /\ UNCHANGED time_vars

\* the call, its cache key built from the clock (line 246)
KeyedEnter ==
    /\ EnterCall
    /\ cache_keys' = IF pc' = "post"
                     THEN Append(cache_keys, cache_key(clock))
                     ELSE cache_keys
    /\ UNCHANGED clock

\* process_single_url, lines 249-289: POST /crawl and what follows, up to
\* the call of wait_for_completion; the service answers with one of
\* responses
SubmitWith(responses) ==
    /\ pc = "post"
    /\ \E i \in DOMAIN responses :
        LET resp == responses[i]
            o == OnCrawlResponse(resp)
        IN  \E save_ok \in SaveResults(o.act) :
            /\ request' = [method |-> "POST", path |-> "/crawl", id |-> <<>>]
            /\ response' = resp
            /\ save_raised' = ~save_ok
            /\ file_left' \in FaultPoints(o.act, save_ok)
            /\ IF o.act = "async"
               THEN /\ pc' = "poll"
                    /\ task_id' = o.task_id
                    /\ UNCHANGED <<ret, site, saved, writes>>
               ELSE IF o.act = "save" /\ save_ok
               THEN /\ save_markdown(o.content, cleaned_url)
                    /\ Return("True", "saved_direct")
                    /\ UNCHANGED task_id
               ELSE /\ Return("False",
                              IF o.act = "save" THEN "except" ELSE o.act)
                    /\ UNCHANGED <<task_id, saved, writes>>
    /\ UNCHANGED <<main_vars, cleaned_url, attempt, ep, slept, allNon200,
                   allWaiting, roundSaw, sawTerminal, time_vars, fn_vars>>

\* wait_for_completion, lines 121-151: one endpoint attempt; the service
\* answers with one of responses
PollWith(responses) ==
    /\ pc = "poll"
    /\ \E i \in DOMAIN responses :
        LET resp == responses[i]
            o == OnStatusResponse(resp)
        IN  \E save_ok \in SaveResults(o.act) :
            \* an exception of save_markdown is swallowed by line 150 too
            LET act == IF o.act = "save" /\ ~save_ok THEN "except"
                       ELSE o.act
            IN  /\ request' = [method |-> "GET",
                               path |-> endpoints(task_id)[ep].path,
                               id |-> endpoints(task_id)[ep].id]
                /\ response' = resp
                /\ allNon200' = (allNon200 /\ resp.kind = "response"
                                           /\ resp.code # 200)
                /\ save_raised' = ~save_ok
                /\ file_left' \in FaultPoints(o.act, save_ok)
                /\ roundSaw' = IF act \in {"next", "except"}
                               THEN roundSaw \union {PassedOver(resp)}
                               ELSE roundSaw
                /\ sawTerminal' =
                       (sawTerminal
                        \/ StatusClass(resp) \in {"completed", "failed"})
                /\ IF act = "save"
                   THEN /\ save_markdown(o.content, cleaned_url)
                        /\ Return("True", "saved_async")
                        /\ UNCHANGED <<ep, allWaiting>>
                   ELSE IF act \in {"no_content", "failed"}
                   THEN /\ Return("False", act)
                        /\ UNCHANGED <<ep, allWaiting, saved, writes>>
                   ELSE IF act = "break"
                   THEN /\ pc' = "sleep"
                        /\ UNCHANGED <<ep, allWaiting, ret, site, saved,
                                       writes>>
                   ELSE \* next, except: the next endpoint, if there is one
                        IF ep < Len(endpoints(task_id))
                        THEN /\ ep' = ep + 1
                             /\ UNCHANGED <<pc, allWaiting, ret, site,
                                            saved, writes>>
                        ELSE /\ pc' = "sleep"
                             /\ allWaiting' = FALSE
                             /\ UNCHANGED <<ep, ret, site, saved, writes>>
    /\ UNCHANGED <<main_vars, cleaned_url, task_id, attempt, slept,
                   time_vars, fn_vars>>

Submit == SubmitWith(CrawlResponses)
Poll == PollWith(StatusResponses)
BatchSubmit == SubmitWith(BatchCrawlResponses)
BatchPoll == PollWith(BatchStatusResponses)
DirectSubmit == SubmitWith(DirectCrawlResponses)

\* wait_for_completion, lines 153-156: the delay after a round, then the
\* next round or the timeout
Sleep ==
    /\ pc = "sleep"
    /\ slept' = slept + PollDelay
    /\ IF attempt + 1 < MaxAttempts
       THEN /\ attempt' = attempt + 1
            /\ ep' = 1
            /\ roundSaw' = {}
            /\ pc' = "poll"
            /\ UNCHANGED <<ret, site>>
       ELSE /\ Return("False", "timeout")
            /\ UNCHANGED <<attempt, ep, roundSaw>>
    /\ save_raised' = FALSE
    /\ file_left' = FALSE
    /\ UNCHANGED <<main_vars, cleaned_url, task_id, request, response,
                   writes, saved, allNon200, allWaiting, sawTerminal,
                   time_vars, fn_vars>>

\* main: lines 315-317 after a single URL, lines 354-361 in the batch loop
BackInMain ==
    /\ pc = "returned"
    /\ IF mode = "batch"
       THEN /\ successful' = IF ret = "True" THEN successful + 1
                             ELSE successful
            /\ failed' = IF ret = "True" THEN failed ELSE failed + 1
            /\ IF idx < Len(urls)
               THEN idx' = idx + 1 /\ pc' = "call"
               ELSE idx' = idx /\ pc' = "end"
       ELSE /\ pc' = "end"
            /\ UNCHANGED <<successful, failed, idx>>
    /\ UNCHANGED <<mode, urls, call_vars, saved, time_vars, fn_vars>>

\* one crawl of a URL the user typed (main's choice 1)
Next ==
    \/ ChooseSingle
    \/ Enter
    \/ Submit
    \/ Poll
    \/ Sleep
    \/ BackInMain

Spec == Init /\ [][Next]_vars

\* main with both choices, the service answering with one answer of each
\* kind
MainNext ==
    \/ ChooseSingle
    \/ ChooseBatch
    \/ Enter
    \/ BatchSubmit
    \/ BatchPoll
    \/ Sleep
    \/ BackInMain

MainSpec == Init /\ [][MainNext]_vars

\* main, lines 295 and 376-378: back to the menu for the next pass, some
\* time later; the locals start afresh, and so does the record of the
\* files saved
Again ==
    /\ pc = "end"
    /\ \E d \in 1..MaxElapse :
          /\ clock + d <= MaxClock
          /\ clock' = clock + d
    /\ pc' = "menu"
    /\ mode' = "none"
    /\ urls' = <<>>
    /\ idx' = 0
    /\ successful' = 0
    /\ failed' = 0
    /\ cleaned_url' = <<>>
    /\ task_id' = JNull
    /\ attempt' = 0
    /\ ep' = 1
    /\ request' = NoRequest
    /\ response' = NoResponse
    /\ ret' = "none"
    /\ site' = "none"
    /\ slept' = 0
    /\ writes' = 0
    /\ saved' = <<>>
    /\ allNon200' = TRUE
    /\ allWaiting' = TRUE
    /\ roundSaw' = {}
    /\ sawTerminal' = FALSE
    /\ save_raised' = FALSE
    /\ file_left' = FALSE
    /\ UNCHANGED <<cache_keys, fn_vars>>

\* pass after pass of single URLs, each submission answered at once, the
\* clock read when the cache key is built
KeyNext ==
    \/ ChooseSingle
    \/ KeyedEnter
    \/ DirectSubmit
    \/ BackInMain
    \/ Again

KeySpec == Init /\ [][KeyNext]_vars

\* the program's own state, which the study of a function leaves alone
program_vars == <<pc, main_vars, call_vars, saved, time_vars>>

\* the argument of the next application: the text given, then what the
\* last application returned
LastText == IF outs = <<>> THEN arg ELSE outs[Len(outs)]

\* clean_markdown_content applied to a text, and again to what it returned
Clean ==
    /\ Len(outs) < 2
    /\ outs' = Append(outs, clean_markdown_content(JStr(LastText)))
    /\ UNCHANGED <<arg, program_vars>>

CleanInit ==
    /\ ProgramInit
    /\ arg \in CleanTexts
    /\ outs = <<>>

CleanNext == Clean

CleanSpec == CleanInit /\ [][CleanNext]_vars

\* extract_clean_content applied to a response body
Extract ==
    /\ outs = <<>>
    /\ outs' = <<extract_clean_content(arg)>>
    /\ UNCHANGED <<arg, program_vars>>

ExtractInit ==
    /\ ProgramInit
    /\ arg \in Bodies
    /\ outs = <<>>

ExtractNext == Extract

ExtractSpec == ExtractInit /\ [][ExtractNext]_vars

\* what a function returned, with the function's name
Out(f, r) == [f |-> f, r |-> r]

\* the applications of clean_and_validate_url so far were all accepted
Accepted ==
    \A i \in 1..Len(outs) : outs[i].f = "normalize" /\ outs[i].r.t = "text"

\* clean_and_validate_url applied to a raw string, and again to the URL it
\* returned
Normalize ==
    /\ Len(outs) < 2
    /\ Accepted
    /\ outs' = Append(outs, Out("normalize", clean_and_validate_url(
                    IF outs = <<>> THEN arg ELSE outs[Len(outs)].r.v)))
    /\ UNCHANGED <<arg, program_vars>>

\* line 209: save_markdown names the file after the normalized URL
Filename ==
    /\ outs # <<>>
    /\ Accepted
    /\ outs' = Append(outs, Out("filename",
                    Text(get_filename_from_url(outs[Len(outs)].r.v))))
    /\ UNCHANGED <<arg, program_vars>>

UrlInit ==
    /\ ProgramInit
    /\ arg \in RawUrls
    /\ outs = <<>>

UrlNext == Normalize \/ Filename

UrlSpec == UrlInit /\ [][UrlNext]_vars

(***************************************************************************)
(* What the claims read off a status response.                             *)
(***************************************************************************)

\* HTTP 200 with a JSON object that has a status field
HasStatusField(resp) ==
    /\ Is200(resp)
    /\ resp.json
    /\ IsDict(resp.body)
    /\ "status" \in DOMAIN resp.body.v

\* a completed answer from whose result extract_clean_content gets content
Extractable(resp) ==
    /\ StatusClass(resp) = "completed"
    /\ HasContent(extract_clean_content(final_result(resp.body)))

\* a completed answer the handling of whose result raises
ExtractionRaises(resp) ==
    /\ StatusClass(resp) = "completed"
    /\ extract_clean_content(final_result(resp.body)).t = "raise"

\* status completed with a result object holding non-empty markdown
CompletedWithMarkdown(resp) ==
    /\ HasStatusField(resp)
    /\ StatusOf(resp.body) = Completed
    /\ "result" \in DOMAIN resp.body.v
    /\ IsDict(resp.body.v.result)
    /\ "markdown" \in DOMAIN resp.body.v.result.v
    /\ resp.body.v.result.v.markdown.kind = "str"
    /\ Len(resp.body.v.result.v.markdown.v) > 0

MarkdownOf(resp) == resp.body.v.result.v.markdown.v

\* the poll goes on after an endpoint attempt: to the next candidate, or to
\* the delay after the last one
GoesOn ==
    /\ IF ep < Len(endpoints(task_id))
       THEN pc' = "poll" /\ ep' = ep + 1
       ELSE pc' = "sleep" /\ ep' = ep
    /\ ret' = "none"
    /\ attempt' = attempt
    /\ slept' = slept
    /\ writes' = writes
    /\ saved' = saved

NotAnswering == {"exception", "non200"}

(***************************************************************************)
(* The claims.                                                             *)
(***************************************************************************)

\* C1 (as claimed): a status GET answered with HTTP 200 and a status of
\* completed/success/finished ends the poll in that step, with the content
\* saved or with an extraction failure, whatever the result field holds.
\* Stated leaving aside the steps in which the file write raised.
C1_CompletedEndsThePoll ==
    [][(pc = "poll" /\ StatusClass(response') = "completed"
                    /\ ~save_raised')
        => /\ pc' = "returned"
           /\ site' \in {"saved_async", "no_content"}]_vars

C3_AllNon200TimesOut ==
    (request.method = "GET" /\ allNon200)
        => /\ writes = 0
           /\ saved = <<>>
           /\ pc \in {"poll", "sleep", "returned", "end"}
           /\ attempt < MaxAttempts
           /\ pc \in {"returned", "end"}
                  => /\ ret = "False"
                     /\ site = "timeout"
                     /\ attempt = MaxAttempts - 1
                     /\ slept = MaxAttempts * PollDelay

\* C3: the call returned from the timeout after non-200 answers only
C3_Witness ==
    /\ pc = "returned"
    /\ request.method = "GET"
    /\ allNon200
    /\ site = "timeout"
    /\ ret = "False"

\* C4 (as claimed): the poll ends within 24 rounds, having slept 5 units
\* after each round that did not end it, and it ends as a timeout exactly
\* when no status GET was answered with a completed or failed status.
C4_TimeoutIffNoTerminalStatus ==
    /\ attempt < MaxAttempts
    /\ (pc = "returned" /\ request.method = "GET")
           => /\ (site = "timeout") <=> ~sawTerminal
              /\ slept = PollDelay * (IF site = "timeout" THEN attempt + 1
                                      ELSE attempt)

\* C5: a status GET answered with HTTP 200 and status failed or error makes
\* the poll return failure in that step: no further endpoint, no further
\* round, no delay, no file.
C5_FailedEndsThePoll ==
    [][(pc = "poll" /\ StatusClass(response') = "failed")
        => /\ pc' = "returned"
           /\ ret' = "False"
           /\ site' = "failed"
           /\ attempt' = attempt
           /\ ep' = ep
           /\ slept' = slept
           /\ writes' = writes
           /\ saved' = saved]_vars

\* C5: the poll returned on "ERROR" from the second candidate of the
\* second round
C5_Witness ==
    /\ pc = "returned"
    /\ site = "failed"
    /\ StatusClass(response) = "failed"
    /\ Str(response.body.v.status) = <<"E", "R", "R", "O", "R">>
    /\ attempt = 1
    /\ ep = 2

C7_UnrecognizedGoesOn ==
    [][(pc = "poll" /\ StatusClass(response') = "unrecognized")
        => GoesOn]_vars

\* C7: the poll ended as completed after an unrecognized status in the round
C7_Witness ==
    /\ pc = "returned"
    /\ site = "saved_async"
    /\ "unrecognized" \in roundSaw

\* ... as failed
C7_FailedAfterwards ==
    /\ pc = "returned"
    /\ site = "failed"
    /\ "unrecognized" \in roundSaw

\* ... as timed out
C7_TimedOutAfterwards ==
    /\ pc = "returned"
    /\ site = "timeout"
    /\ roundSaw = {"unrecognized"}

C9_PolledIffIdField ==
    [][(pc = "post" /\ Is200(response') /\ response'.json
                    /\ IsDict(response'.body))
        => LET body == response'.body.v
               fields == {"task_id", "id"} \cap DOMAIN body
           IN  IF fields # {}
               THEN /\ pc' = "poll"
                    /\ \A k \in DOMAIN endpoints(task_id') :
                           endpoints(task_id')[k].id
                               \in {Str(body[f]) : f \in fields}
               ELSE /\ pc' = "returned"
                    /\ request'.method = "POST"]_vars

\* C10 (as claimed): process_single_url returns True or False and never
\* raises; a batch run calls it once for each URL in order and counts every
\* call as successful or failed.
C10_EveryFailureReturnsFalse ==
    /\ pc # "crashed"
    /\ pc = "returned" => ret \in {"True", "False"}
    /\ mode = "batch"
           => /\ idx \in 1..Len(urls)
              /\ successful + failed = (IF pc = "end" THEN idx ELSE idx - 1)
              /\ pc = "end" => idx = Len(urls)

\* the field extract_clean_content takes the content from, in a body from
\* which it takes some: results[0] or the body, markdown before
\* markdown_v2.raw_markdown
SelectedField(result) ==
    LET actual == IF /\ "results" \in DOMAIN result.v
                     /\ Truthy(result.v.results)
                  THEN result.v.results.v[1]
                  ELSE result
    IN  IF "markdown" \in DOMAIN actual.v /\ Truthy(actual.v.markdown)
        THEN actual.v.markdown
        ELSE actual.v.markdown_v2.v.raw_markdown

PostCrawl == [method |-> "POST", path |-> "/crawl", id |-> <<>>]

\* C11: a raw input that clean_and_validate_url rejects (it is empty or a
\* comment after cleaning, or has no host) makes process_single_url return
\* False, no request issued and no file written.
C11_RejectedUrlReturnsFalse ==
    [][(pc = "call" /\ clean_and_validate_url(urls[idx]).t = "none")
        => /\ pc' = "returned"
           /\ ret' = "False"
           /\ request' = NoRequest
           /\ writes' = 0
           /\ saved' = saved]_vars

\* C11: the call returned False on "/a", which has no host
C11_Witness ==
    /\ pc = "returned"
    /\ ret = "False"
    /\ site = "invalid_url"
    /\ urls[idx] = <<"/", "a">>
    /\ request = NoRequest
    /\ writes = 0

\* C12: a submission answered with a non-200 status, or whose POST raised,
\* makes process_single_url return False in that step: one POST, no status
\* GET, nothing extracted from the body, no file.
C12_FailedSubmissionReturnsFalse ==
    [][(/\ pc = "post"
        /\ \/ response'.kind = "exception"
           \/ response'.kind = "response" /\ response'.code # 200)
        => /\ pc' = "returned"
           /\ ret' = "False"
           /\ site' \in {"error", "except"}
           /\ request = NoRequest
           /\ request' = PostCrawl
           /\ task_id' = task_id
           /\ writes' = 0
           /\ saved' = saved]_vars

\* C12: the call returned on a 422 whose body holds a task_id
C12_Witness ==
    /\ pc = "returned"
    /\ ret = "False"
    /\ request = PostCrawl
    /\ response.kind = "response"
    /\ response.code = 422
    /\ "task_id" \in DOMAIN response.body.v

\* C13: whatever save_markdown is given is clean_markdown_content of the
\* field the content was taken from, on the immediate path and on the
\* completed-async path.
C13_SavedContentIsCleaned ==
    [][saved' # saved
        => LET body == IF pc = "post" THEN response'.body
                       ELSE final_result(response'.body)
           IN  saved' = Append(saved,
                   [url |-> cleaned_url,
                    content |->
                        clean_markdown_content(SelectedField(body))])]_vars

\* C13: content that cleaning changed was saved, taken from
\* markdown_v2.raw_markdown
C13_Witness ==
    /\ pc = "returned"
    /\ ret = "True"
    /\ saved # <<>>
    /\ saved[Len(saved)].content # Str(SelectedField(response.body))
    /\ "markdown_v2" \in DOMAIN response.body.v

\* C14 (as claimed): no two submissions carry the same cache key.
C14_CacheKeysDiffer ==
    \A i, j \in DOMAIN cache_keys :
        i # j => cache_keys[i] # cache_keys[j]

\* C15 (as claimed): clean_markdown_content applied to its own output
\* returns that output.
C15_CleanIsIdempotent ==
    Len(outs) = 2 => outs[2] = outs[1]

\* C16 (as claimed): clean_and_validate_url applied to a URL it returned
\* returns that URL.
C16_NormalizeIsIdempotent ==
    (Len(outs) >= 2 /\ outs[2].f = "normalize") => outs[2] = outs[1]

\* the file name computed last, if the last application computed one
LastFilename == outs[Len(outs)].r.v
NamedFile == outs # <<>> /\ outs[Len(outs)].f = "filename"

ExampleCom == <<"e", "x", "a", "m", "p", "l", "e", "c", "o", "m">>
Example_Com == <<"e", "x", "a", "m", "p", "l", "e", "-", "c", "o", "m">>
MyPost == <<"-", "m", "y", "-", "p", "o", "s", "t">>

\* the example inputs normalize to https://example.com/blog/my-post.html
\* and to https://example.com/
ExamplesNormalize ==
    /\ (arg = ExamplePost /\ outs # <<>>)
        => outs[1] = Out("normalize", Text(Https \o ExamplePost))
    /\ (arg = ExampleHome /\ outs # <<>>)
        => outs[1] = Out("normalize", Text(ExampleHome))

\* C17 (as claimed): example.com/blog/my-post.html normalizes to
\* https://example.com/blog/my-post.html and is saved as
\* example-com-my-post.md; https://example.com/ is saved as example-com.md.
C17_ExampleFilenamesHyphenated ==
    /\ ExamplesNormalize
    /\ (arg = ExamplePost /\ NamedFile)
        => LastFilename = Example_Com \o MyPost \o Md
    /\ (arg = ExampleHome /\ NamedFile)
        => LastFilename = Example_Com \o Md

\* C17 (amended): example.com/blog/my-post.html normalizes to
\* https://example.com/blog/my-post.html and is saved as
\* examplecom-my-post.md; https://example.com/ is saved as examplecom.md:
\* the dot of the host is dropped, not replaced.
C17_ExampleFilenames ==
    /\ ExamplesNormalize
    /\ (arg = ExamplePost /\ NamedFile)
        => LastFilename = ExampleCom \o MyPost \o Md
    /\ (arg = ExampleHome /\ NamedFile)
        => LastFilename = ExampleCom \o Md

\* C17: the file name of example.com/blog/my-post.html has been computed
C17_Witness ==
    /\ arg = ExamplePost
    /\ Len(outs) = 2
    /\ outs[1] = Out("normalize", Text(Https \o ExamplePost))
    /\ NamedFile

\* C18 (as claimed): for every response body extract_clean_content returns
\* a non-empty text or None, never an empty string.
C18_ExtractNeverEmpty ==
    outs # <<>> => outs[1] = None \/ (outs[1].t = "text" /\ outs[1].v # <<>>)

\* the body has a non-empty results list, and its first element
HasResults ==
    /\ IsDict(arg)
    /\ "results" \in DOMAIN arg.v
    /\ arg.v["results"].kind = "list"
    /\ Len(arg.v["results"].v) > 0
FirstResult == arg.v["results"].v[1]

\* the field named key of object x is there and truthy
Holds(x, key) == key \in DOMAIN x.v /\ Truthy(x.v[key])

\* C19: when the body has a non-empty results list, the content comes from
\* results[0] alone: its markdown when that is there and truthy, else its
\* markdown_v2.raw_markdown, else nothing, whatever the top level of the
\* body holds.
C19_FirstResultPreferred ==
    (HasResults /\ outs # <<>>)
        => LET first == FirstResult
           IN  IF ~IsDict(first) THEN outs[1].t # "text"
               ELSE IF Holds(first, "markdown")
               THEN outs[1] = Text(clean_markdown_content(first.v["markdown"]))
               ELSE IF /\ Holds(first, "markdown_v2")
                       /\ IsDict(first.v["markdown_v2"])
                       /\ "raw_markdown" \in DOMAIN first.v["markdown_v2"].v
               THEN outs[1] = Text(clean_markdown_content(
                                    first.v["markdown_v2"].v["raw_markdown"]))
               ELSE outs[1] = None

\* C19: a body with markdown at the top and another markdown in results[0]
\* has given the content of results[0]
C19_Witness ==
    /\ arg = WithResults(Fields(JStr(Done), Absent),
                         JList(<<Fields(JStr(ACited), Absent)>>))
    /\ outs = <<Text(<<"a">>)>>

\* a step in which save_markdown opened the file for writing, whether it
\* then completed or raised
WritesFile == writes' # writes \/ file_left'

\* C20 (as claimed): a call writes at most one file and returns True exactly
\* when that write happened: True with one completed write of non-empty
\* content for the normalized URL, False with no write; a step that writes
\* ends the call, so that no request follows it.
C20_TrueIffOneWrite ==
    /\ [](pc = "returned"
            => /\ writes <= 1
               /\ ret = "True" <=> writes = 1
               /\ ret = "True"
                    => /\ Len(saved) = 1
                       /\ saved[1].url = cleaned_url
                       /\ saved[1].content # <<>>
               /\ ret = "False" => saved = <<>> /\ ~file_left)
    /\ [][WritesFile => pc' = "returned" /\ ret' = "True"]_vars

=============================================================================
